---------------------------- MODULE Spec2Model ----------------------------
(***************************************************************************)
(* Model of Localization/Code/UpdateStrings/script.py of mac-mouse-fix:    *)
(* the line-based parser of .strings files (parse_strings_file_content),   *)
(* the merge of a .strings file with freshly generated content             *)
(* (update_strings_file_content) and the loop over the files of a batch    *)
(* (update_strings_files).                                                 *)
(*                                                                         *)
(* A text is a sequence of characters, each character a one-element        *)
(* string.  LS stands for the single code point U+2028 LINE SEPARATOR.     *)
(***************************************************************************)
EXTENDS Naturals, Sequences, FiniteSets

VARIABLES
    pc,                 \* position of the script
    content,            \* argument `content` (text of the .strings file)
    generated_content,  \* argument `generated_content` (text from the extractor)
    remove_value,       \* argument `remove_value` of the parser
    ret,                \* what the last call returned, or the assertion that failed
    first,              \* what the first call of update_strings_file_content returned
    wet_run,            \* --wet_run
    disk,               \* the .strings files of the batch, by position in strings_file_paths
    disk0,              \* the same files as they were when the script started
    idx,                \* number of paths of strings_file_paths already taken by the loop
    modss               \* the list `modss`

vars == <<pc, content, generated_content, remove_value, ret, first,
          wet_run, disk, disk0, idx, modss>>

---------------------------------------------------------------------------
(* Characters *)

NL == "\n"
LS == "u2028"
Q  == "\""

\* str.isspace(), and \s of a str pattern, within the alphabet of the model
IsSpace(c) == c \in {" ", NL, LS}

\* the line boundaries of str.splitlines within the alphabet of the model
IsLineBoundary(c) == c \in {NL, LS}

\* str.strip() == '' : every character is whitespace
StripIsEmpty(s) == \A i \in 1..Len(s) : IsSpace(s[i])

\* `k in s` for two strings
Contains(s, k) ==
    \E i \in 0..(Len(s) - Len(k)) : \A j \in 1..Len(k) : s[i + j] = k[j]

\* s[a:b] of Python written with 1-based inclusive positions a..b
Slice(s, a, b) == IF a > b THEN <<>> ELSE SubSeq(s, a, b)

RECURSIVE Concat(_)
Concat(ss) == IF ss = <<>> THEN <<>> ELSE Head(ss) \o Concat(Tail(ss))

---------------------------------------------------------------------------
(* content.splitlines(True) *)

RECURSIVE SplitFrom(_, _, _)
SplitFrom(s, i, cur) ==
    IF i > Len(s)
    THEN IF cur = <<>> THEN <<>> ELSE <<cur>>
    ELSE IF IsLineBoundary(s[i])
         THEN <<Append(cur, s[i])>> \o SplitFrom(s, i + 1, <<>>)
         ELSE SplitFrom(s, i + 1, Append(cur, s[i]))

splitlines(s) == SplitFrom(s, 1, <<>>)

---------------------------------------------------------------------------
(* shared.strings_file_regex(): the statement pattern, applied with        *)
(* regex.match to one line.  Optional whitespace, "key", =, "value", ;     *)
(* and then the rest of the line.  Group 2 is the key, group 3 the value.  *)

\* the first position >= i of s that holds no whitespace (Len(s)+1 if none)
SkipSpace(s, i) ==
    CHOOSE j \in i..(Len(s) + 1) :
        /\ \A m \in i..(j - 1) : IsSpace(s[m])
        /\ (j <= Len(s) => ~IsSpace(s[j]))

NoMatch == [matched |-> FALSE, key |-> <<>>, vstart |-> 0, vend |-> 0]

RegexMatch(line) ==
    LET n  == Len(line)
        q1 == SkipSpace(line, 1)
    IN  IF ~(q1 <= n /\ line[q1] = Q) THEN NoMatch
        ELSE
        LET q2s == {j \in (q1 + 1)..n : line[j] = Q}
        IN  IF q2s = {} THEN NoMatch
            ELSE
            LET q2 == CHOOSE j \in q2s : \A m \in q2s : j <= m
                e  == SkipSpace(line, q2 + 1)
            IN  IF q2 = q1 + 1 \/ (\E m \in (q1 + 1)..(q2 - 1) : line[m] = NL)
                   \/ ~(e <= n /\ line[e] = "=")
                THEN NoMatch
                ELSE
                LET q3 == SkipSpace(line, e + 1)
                IN  IF ~(q3 <= n /\ line[q3] = Q) THEN NoMatch
                    ELSE
                    LET q4s == {j \in (q3 + 1)..(n - 1) :
                                   /\ line[j] = Q
                                   /\ line[j + 1] = ";"
                                   /\ \A m \in (q3 + 1)..(j - 1) : line[m] # NL}
                    IN  IF q4s = {} THEN NoMatch
                        ELSE
                        LET q4 == CHOOSE j \in q4s : \A m \in q4s : j <= m
                        IN  [matched |-> TRUE,
                             key     |-> Slice(line, q1 + 1, q2 - 1),
                             vstart  |-> q3 + 1,     \* first position of the value
                             vend    |-> q4 - 1]     \* last position of the value

---------------------------------------------------------------------------
(* The dict `result`: insertion-ordered, a sequence of <key, entry>.       *)

DictKeys(d) == [i \in 1..Len(d) |-> d[i].key]

DictHas(d, k) == \E i \in 1..Len(d) : d[i].key = k

DictGet(d, k) == d[CHOOSE i \in 1..Len(d) : d[i].key = k]

\* d[k] = {line, comment}: a key already there keeps its place
DictSet(d, k, line, comment) ==
    LET e == [key |-> k, line |-> line, comment |-> comment]
    IN  IF DictHas(d, k)
        THEN [i \in 1..Len(d) |-> IF d[i].key = k THEN e ELSE d[i]]
        ELSE Append(d, e)

---------------------------------------------------------------------------
(* parse_strings_file_content *)

\* the stored line: with remove_value, the line without the span of group 3
ResultLine(line, m, rv) ==
    IF rv
    THEN Slice(line, 1, m.vstart - 1) \o Slice(line, m.vend + 1, Len(line))
    ELSE line

\* one pass of the loop body: a matching line closes an entry, any other
\* line is added to the pending comment
ParseStep(st, line, rv) ==
    LET m == RegexMatch(line)
    IN  IF m.matched
        THEN [result      |-> DictSet(st.result, m.key, ResultLine(line, m, rv),
                                      st.acc_comment),
              acc_comment |-> <<>>,
              last_key    |-> m.key]
        ELSE [st EXCEPT !.acc_comment = st.acc_comment \o line]

RECURSIVE ParseLoop(_, _, _, _)
ParseLoop(lines, i, st, rv) ==
    IF i > Len(lines) THEN st
    ELSE ParseLoop(lines, i + 1, ParseStep(st, lines[i], rv), rv)

\* err = "none": the dict is returned; "trailing": the assertion on
\* post_comment failed
parse_strings_file_content(text, rv) ==
    LET st == ParseLoop(splitlines(text), 1,
                        [result |-> <<>>, acc_comment |-> <<>>, last_key |-> <<>>],
                        rv)
    IN  IF StripIsEmpty(st.acc_comment)
        THEN [err |-> "none", result |-> st.result, last_key |-> st.last_key]
        ELSE [err |-> "trailing", result |-> <<>>, last_key |-> st.last_key]

---------------------------------------------------------------------------
(* update_strings_file_content *)

\* the entry inserted without the comment of the generated text
InsertedEntry_NoComment(g) == [g EXCEPT !.comment = <<>>]

\* parse[key] = g
InsertedEntry(g) == g

\* the whole generated entry put in place of the target's
UpdatedEntry_TakesGenerated(p, g) == g

\* p['comment'] = g['comment']
UpdatedEntry(p, g) == [p EXCEPT !.comment = g.comment]

InsertMod(g) ==
    [key |-> g.key, modtype |-> "insert", value |-> g.comment \o g.line]

CommentMod(p, g) ==
    [key |-> g.key, modtype |-> "comment", before |-> p.comment, after |-> g.comment]

\* the body of `for key in generated_parse.keys()`, g = generated_parse[key]
MergeStep(st, g) ==
    IF ~DictHas(st.parse, g.key)
    THEN [parse |-> Append(st.parse, InsertedEntry(g)),
          mods  |-> Append(st.mods, InsertMod(g))]
    ELSE LET p == DictGet(st.parse, g.key)
         IN  IF p.comment # g.comment
             THEN [parse |-> [i \in 1..Len(st.parse) |->
                                 IF st.parse[i].key = g.key
                                 THEN UpdatedEntry(p, g)
                                 ELSE st.parse[i]],
                   mods  |-> Append(st.mods, CommentMod(p, g))]
             ELSE st

RECURSIVE MergeLoop(_, _, _)
MergeLoop(generated_parse, i, st) ==
    IF i > Len(generated_parse) THEN st
    ELSE MergeLoop(generated_parse, i + 1, MergeStep(st, generated_parse[i]))

\* "Validate parse": no key of all_keys appears in the comment of any key
ValidateParse(parse, all_keys) ==
    \A l \in all_keys : \A k \in all_keys : ~Contains(DictGet(parse, l).comment, k)

\* the unused kv-pairs deleted instead of attached at the end
superfluous_keys_Deleted(parse, generated_parse) == <<>>

\* [k for k in parse.keys() if k not in generated_parse.keys()]
superfluous_keys(parse, generated_parse) ==
    SelectSeq(DictKeys(parse), LAMBDA k : ~DictHas(generated_parse, k))

\* for k in new_keys: new_content += parse[k]['comment'] + parse[k]['line']
Attach(parse, new_keys) ==
    Concat([i \in 1..Len(new_keys) |->
               DictGet(parse, new_keys[i]).comment \o DictGet(parse, new_keys[i]).line])

Failed(e) ==
    [err |-> e, new_content |-> <<>>, mods |-> <<>>,
     ordered_keys |-> [before |-> <<>>, after |-> <<>>], parse |-> <<>>]

\* set(parse.keys()).union(set(generated_parse.keys()))
AllKeys(parse, generated_parse) ==
    {parse[i].key : i \in 1..Len(parse)}
        \cup {generated_parse[i].key : i \in 1..Len(generated_parse)}

\* "Reassemble parse into updated content", and the return
Reassemble(parse, generated_parse, mods) ==
    [err          |-> "none",
     new_content  |-> Attach(parse, DictKeys(generated_parse)
                                       \o superfluous_keys(parse, generated_parse)),
     mods         |-> mods,
     ordered_keys |-> [before |-> DictKeys(parse),
                       after  |-> DictKeys(generated_parse)
                                     \o superfluous_keys(parse, generated_parse)],
     parse        |-> parse]

\* the function after both texts are parsed
Reconcile(target_parse, generated_parse) ==
    LET st == MergeLoop(generated_parse, 1, [parse |-> target_parse, mods |-> <<>>])
    IN  IF ValidateParse(st.parse, AllKeys(st.parse, generated_parse))
        THEN Reassemble(st.parse, generated_parse, st.mods)
        ELSE Failed("corruption")

\* err = "none": new_content, mods and ordered_keys are returned (parse is
\* the local dict `parse` at the return); any other err is the assertion
\* that failed, and nothing is returned
update_strings_file_content(text, generated) ==
    LET p0 == parse_strings_file_content(text, FALSE)
        g0 == parse_strings_file_content(generated, TRUE)
    IN  IF p0.err # "none" THEN Failed(p0.err)
        ELSE IF g0.err # "none" THEN Failed(g0.err)
        ELSE Reconcile(p0.result, g0.result)

---------------------------------------------------------------------------
(* The texts the script is run on *)

MaxLines  == 3      \* lines of a .strings file
MaxFiles  == 3      \* paths in strings_file_paths

\* "k" = "v"; with its line break
Stmt(k, v) == <<Q>> \o k \o <<Q, "=", Q>> \o v \o <<Q, ";", NL>>

KeyA == <<"A">>
KeyB == <<"B">>
KeyC == <<"C">>

CommentC == <<"/", "/", "c", NL>>
CommentD == <<"/", "/", "d", NL>>
CommentA == <<"/", "/", "A", NL>>               \* a comment that holds the text of key A
NoSemicolon == <<Q, "A", Q, "=", Q, "x", Q, NL>>  \* "A"="x" without its semicolon
WithLS == <<Q, "B", Q, "=", Q, "x", LS, "y", Q, ";", NL>>  \* a value that holds U+2028
Inline == <<" ", Q, "A", Q, " ", "=", " ", Q, "z", Q, ";", " ", "!">>
                                                \* indented, inline comment, no line break
NoBreak(line) == Slice(line, 1, Len(line) - 1)  \* a last line without its line break

\* every text of at most n lines of the pool
Texts(pool, n) == {Concat(f) : f \in UNION {[1..m -> pool] : m \in 0..n}}

ParserLines ==
    {Stmt(KeyA, <<"x">>), Stmt(KeyB, <<"y">>), CommentC, <<NL>>,
     NoSemicolon, WithLS, Inline}

TargetLines ==
    {Stmt(KeyA, <<"x">>), Stmt(KeyB, <<"y">>), Stmt(KeyC, <<"z">>),
     NoBreak(Stmt(KeyB, <<"y">>)), CommentA}

\* extractLocStrings sets every value to the key
GeneratedLines ==
    {Stmt(KeyA, KeyA), Stmt(KeyB, KeyB), CommentD, CommentA}

BatchTexts ==
    {Stmt(KeyA, <<"x">>),
     CommentC \o Stmt(KeyA, <<"x">>),
     Stmt(KeyB, <<"y">>) \o NoSemicolon,
     CommentA \o Stmt(KeyB, <<"y">>)}

BatchGenerated == {CommentC \o Stmt(KeyA, KeyA), CommentD \o Stmt(KeyA, KeyA)}

NoReturn == [err |-> "not called"]

---------------------------------------------------------------------------
(* The parser called on one text *)

InitParser ==
    /\ pc = "start"
    /\ content \in Texts(ParserLines, MaxLines)
    /\ remove_value \in BOOLEAN
    /\ generated_content = <<>>
    /\ ret = NoReturn
    /\ first = NoReturn
    /\ wet_run = FALSE
    /\ disk = <<>>
    /\ disk0 = <<>>
    /\ idx = 0
    /\ modss = <<>>

Parse ==
    /\ pc = "start"
    /\ ret' = parse_strings_file_content(content, remove_value)
    /\ pc' = IF ret'.err = "none" THEN "returned" ELSE "raised"
    /\ UNCHANGED <<content, generated_content, remove_value, first,
                   wet_run, disk, disk0, idx, modss>>

NextParser == Parse

SpecParser == InitParser /\ [][NextParser]_vars

---------------------------------------------------------------------------
(* update_strings_file_content called on one file, and called again on    *)
(* what it returned, as a second run of the script does after a wet run    *)

Init ==
    /\ pc = "start"
    /\ content \in Texts(TargetLines, MaxLines)
    /\ generated_content \in Texts(GeneratedLines, MaxLines - 1)
    /\ remove_value = FALSE
    /\ ret = NoReturn
    /\ first = NoReturn
    /\ wet_run = FALSE
    /\ disk = <<>>
    /\ disk0 = <<>>
    /\ idx = 0
    /\ modss = <<>>

Update ==
    /\ pc = "start"
    /\ ret' = update_strings_file_content(content, generated_content)
    /\ first' = ret'
    /\ pc' = IF ret'.err = "none" THEN "updated" ELSE "raised"
    /\ UNCHANGED <<content, generated_content, remove_value,
                   wet_run, disk, disk0, idx, modss>>

UpdateAgain ==
    /\ pc = "updated"
    /\ content' = first.new_content
    /\ ret' = update_strings_file_content(content', generated_content)
    /\ pc' = IF ret'.err = "none" THEN "updated again" ELSE "raised again"
    /\ UNCHANGED <<generated_content, remove_value, first,
                   wet_run, disk, disk0, idx, modss>>

Next == Update \/ UpdateAgain

Spec == Init /\ [][Next]_vars

---------------------------------------------------------------------------
(* update_strings_files: the loop over strings_file_paths of one file_dict *)

\* a loop that goes on after a failed call
AfterCall_GoesOn(r) == "loop"

\* an assertion that fails in update_strings_file_content is caught nowhere:
\* it leaves the loop, update_strings_files and main
AfterCall(r) == IF r.err = "none" THEN "loop" ELSE "crashed"

\* if wet_run and new_content != content: shared.write_file(path, new_content)
Written(old, r, wet) == IF wet /\ r.new_content # old THEN r.new_content ELSE old

InitBatch ==
    /\ pc = "loop"
    /\ wet_run \in BOOLEAN
    /\ disk \in UNION {[1..n -> BatchTexts] : n \in 1..MaxFiles}
    /\ disk0 = disk
    /\ generated_content \in BatchGenerated
    /\ idx = 0
    /\ modss = <<>>
    /\ content = <<>>
    /\ remove_value = FALSE
    /\ ret = NoReturn
    /\ first = NoReturn

ProcessPath ==
    /\ pc = "loop"
    /\ idx < Len(disk)
    /\ content' = disk[idx + 1]
    /\ ret' = update_strings_file_content(content', generated_content)
    /\ pc' = AfterCall(ret')
    /\ IF pc' = "loop"
       THEN /\ disk' = [disk EXCEPT ![idx + 1] = Written(content', ret', wet_run)]
            /\ modss' = Append(modss, [path |-> idx + 1, mods |-> ret'.mods,
                                       ordered_keys |-> ret'.ordered_keys])
            /\ idx' = idx + 1
       ELSE UNCHANGED <<disk, modss, idx>>
    /\ UNCHANGED <<generated_content, remove_value, first, wet_run, disk0>>

\* log_modifications(modss), and the script ends
Finish ==
    /\ pc = "loop"
    /\ idx = Len(disk)
    /\ pc' = "done"
    /\ UNCHANGED <<content, generated_content, remove_value, ret, first,
                   wet_run, disk, disk0, idx, modss>>

NextBatch == ProcessPath \/ Finish

SpecBatch == InitBatch /\ [][NextBatch]_vars

---------------------------------------------------------------------------
(* What the claims speak of *)

\* the two parses update_strings_file_content starts from
TargetParse == parse_strings_file_content(content, FALSE)
GeneratedParse == parse_strings_file_content(generated_content, TRUE)

\* update_strings_file_content has returned for the texts of this state
Returned == pc \in {"updated", "updated again"}

\* positions of key k in a sequence of keys
Positions(keys, k) == {i \in 1..Len(keys) : keys[i] = k}

---------------------------------------------------------------------------
(* C1: for every key of the target parse (so for every key present in both *)
(* parses), the entry's line after update_strings_file_content is the line *)
(* the target parse holds for it, whatever the generated text holds: only  *)
(* the comment of an existing entry is overwritten.                        *)

C1_ValuePreserved ==
    Returned =>
        LET tp == TargetParse.result
            gp == GeneratedParse.result
        IN  \A i \in 1..Len(tp) :
                /\ DictHas(ret.parse, tp[i].key)
                /\ DictGet(ret.parse, tp[i].key).line = tp[i].line
                /\ (~DictHas(gp, tp[i].key)
                        => DictGet(ret.parse, tp[i].key).comment = tp[i].comment)

\* a key of both texts whose comment was replaced and whose line differs
\* from the generated one
C1_Witness ==
    /\ pc = "updated"
    /\ \E i \in 1..Len(ret.mods) :
           /\ ret.mods[i].modtype = "comment"
           /\ DictHas(TargetParse.result, ret.mods[i].key)
           /\ DictGet(TargetParse.result, ret.mods[i].key).line
                  # DictGet(GeneratedParse.result, ret.mods[i].key).line

---------------------------------------------------------------------------
(* C2: the keys are attached in the order of the generated text, followed  *)
(* by the keys of the target that the generated text lacks, in the order   *)
(* of the target; every key of the target is attached, none twice; and     *)
(* new_content is the comment and line of each key in that order.          *)

C2_FinalOrder ==
    Returned =>
        LET after == ret.ordered_keys.after
            gk    == DictKeys(GeneratedParse.result)
            tk    == DictKeys(TargetParse.result)
        IN  /\ Len(after) >= Len(gk)
            /\ SubSeq(after, 1, Len(gk)) = gk
            /\ \A i \in (Len(gk) + 1)..Len(after) :
                   /\ Positions(tk, after[i]) # {}
                   /\ Positions(gk, after[i]) = {}
            /\ \A i, j \in (Len(gk) + 1)..Len(after) :
                   i < j => \A a \in Positions(tk, after[i]) :
                                \A b \in Positions(tk, after[j]) : a < b
            /\ \A i \in 1..Len(tk) : Cardinality(Positions(after, tk[i])) = 1
            /\ \A i \in 1..Len(after) : Cardinality(Positions(after, after[i])) = 1
            /\ ret.new_content =
                   Concat([i \in 1..Len(after) |->
                              DictGet(ret.parse, after[i]).comment
                                  \o DictGet(ret.parse, after[i]).line])

\* two keys only the target has, one of them ahead of a key of the
\* generated text in the target
C2_Witness ==
    /\ pc = "updated"
    /\ Len(GeneratedParse.result) >= 1
    /\ Len(ret.ordered_keys.after) = Len(GeneratedParse.result) + 2
    /\ DictHas(GeneratedParse.result, TargetParse.result[2].key)
    /\ ret.new_content # content

---------------------------------------------------------------------------
(* C3: idempotence.  When update_strings_file_content(T, R) returns T',    *)
(* update_strings_file_content(T', R) returns too, with no modification,   *)
(* with the key order the first call ended with, and with the text T'.     *)

C3_Idempotent ==
    /\ pc # "raised again"
    /\ pc = "updated again" =>
           /\ ret.mods = <<>>
           /\ ret.ordered_keys.after = first.ordered_keys.after
           /\ ret.new_content = first.new_content

---------------------------------------------------------------------------
(* C5: the corruption guard.  A comment of the target or of the generated  *)
(* text that holds the text of another key of the union of the keys makes  *)
(* update_strings_file_content fail with the corruption error and return   *)
(* no text, also when the generated text holds another comment for the     *)
(* entry the comment belongs to.                                           *)

\* the first call has ended and both texts had parsed, so that the call
\* reached "Validate parse"
Validated(t, g) ==
    pc \in {"updated", "raised"} /\ t.err = "none" /\ g.err = "none"

\* some comment of parsed document d holds the text of a key of `keys`
\* other than the key the comment belongs to
HoldsOtherKey(d, keys) ==
    \E i \in 1..Len(d) : \E k \in keys :
        k # d[i].key /\ Contains(d[i].comment, k)

\* C5: a comment of the target or of the generated text that holds another
\* key of the union makes the call fail with the corruption error, also
\* when the generated text replaces that comment
C5_GuardOnSourceComments ==
    LET t == TargetParse
        g == GeneratedParse
    IN  (/\ Validated(t, g)
         /\ \/ HoldsOtherKey(t.result, AllKeys(t.result, g.result))
            \/ HoldsOtherKey(g.result, AllKeys(t.result, g.result)))
        => (ret.err = "corruption" /\ ret.new_content = <<>>)

\* the comment key k has when the check runs: the generated comment for a
\* key of the generated text, the target's comment for any other key
MergedComment(tp, gp, k) ==
    IF DictHas(gp, k) THEN DictGet(gp, k).comment ELSE DictGet(tp, k).comment

\* what the guard does ensure, placed as it is after the loop that replaces
\* the comments: if a comment of the merged dict holds the text of any key
\* of the union, its own included, the call fails with the corruption error
\* and returns no text
GuardOnMergedComments ==
    LET t == TargetParse
        g == GeneratedParse
    IN  (/\ Validated(t, g)
         /\ \E l \in AllKeys(t.result, g.result) :
                \E k \in AllKeys(t.result, g.result) :
                    Contains(MergedComment(t.result, g.result, l), k))
        => (pc = "raised" /\ ret.err = "corruption" /\ ret.new_content = <<>>)

---------------------------------------------------------------------------
(* C7: a key of the generated parse that the target parse lacks is in the  *)
(* result with the generated entry's comment and its line without the      *)
(* value (the statement of that key with an empty value); one insert       *)
(* modification names it and carries comment + line; no insert             *)
(* modification names a key of the target.                                 *)

\* the entry of ret.parse and the modifications for generated entry g,
\* a key the target lacks
InsertedAs(g) ==
    LET m == RegexMatch(g.line)
    IN  /\ DictHas(ret.parse, g.key)
        /\ DictGet(ret.parse, g.key).comment = g.comment
        /\ DictGet(ret.parse, g.key).line = g.line
        /\ m.matched
        /\ m.key = g.key
        /\ m.vend < m.vstart
        /\ Cardinality({i \in 1..Len(ret.mods) :
                           /\ ret.mods[i].modtype = "insert"
                           /\ ret.mods[i].key = g.key}) = 1
        /\ \A i \in 1..Len(ret.mods) :
               (ret.mods[i].modtype = "insert" /\ ret.mods[i].key = g.key)
                   => ret.mods[i].value = g.comment \o g.line

\* C7: every key the target lacks is inserted as the generated text holds
\* it, with one insert modification, and nothing else is inserted
C7_Insertion ==
    Returned =>
        LET tp == TargetParse.result
            gp == GeneratedParse.result
        IN  /\ \A i \in 1..Len(gp) : ~DictHas(tp, gp[i].key) => InsertedAs(gp[i])
            /\ \A i \in 1..Len(ret.mods) :
                   ret.mods[i].modtype = "insert" => ~DictHas(tp, ret.mods[i].key)

\* a key is inserted with a comment, into a target that holds other keys
C7_Witness ==
    /\ pc = "updated"
    /\ Len(TargetParse.result) >= 1
    /\ \E m \in 1..Len(ret.mods) :
           /\ ret.mods[m].modtype = "insert"
           /\ DictGet(ret.parse, ret.mods[m].key).comment # <<>>
           /\ Contains(ret.new_content, ret.mods[m].value)

---------------------------------------------------------------------------
(* C4: round trip.  For a text the parser accepts, the comment and line of *)
(* every entry, in the order of the parse, give the text back, the         *)
(* whitespace after the last statement line included.                      *)

C4_RoundTrip ==
    (pc = "returned" /\ ~remove_value /\ ret.result # <<>>)
        => Attach(ret.result, DictKeys(ret.result)) = content

---------------------------------------------------------------------------
(* C6: a statement line that lacks its semicolon makes the parser fail,    *)
(* wherever the line stands; no returned entry holds it in its comment.    *)

\* the line with a semicolon put before its line break, or at its end
WithSemicolon(line) ==
    IF line # <<>> /\ IsLineBoundary(line[Len(line)])
    THEN Append(Slice(line, 1, Len(line) - 1), ";") \o <<line[Len(line)]>>
    ELSE Append(line, ";")

\* a key/value statement but for the semicolon
LacksSemicolon(line) ==
    ~RegexMatch(line).matched /\ RegexMatch(WithSemicolon(line)).matched

\* C6: the parser returns for no text that holds a statement without its
\* semicolon, and no comment it returns holds one
C6_MissingSemicolonFails ==
    pc = "returned" =>
        /\ \A i \in 1..Len(splitlines(content)) : ~LacksSemicolon(splitlines(content)[i])
        /\ \A e \in 1..Len(ret.result) :
               \A i \in 1..Len(splitlines(ret.result[e].comment)) :
                   ~LacksSemicolon(splitlines(ret.result[e].comment)[i])

---------------------------------------------------------------------------
(* C9: a key that the pattern recognizes on two lines of one text makes    *)
(* the parser fail; it returns no dict in which the later line replaced    *)
(* the earlier one.                                                        *)

C9_DuplicateKeyFails ==
    pc = "returned" =>
        \A i, j \in 1..Len(splitlines(content)) :
            LET a == RegexMatch(splitlines(content)[i])
                b == RegexMatch(splitlines(content)[j])
            IN  (i # j /\ a.matched /\ b.matched) => a.key # b.key

---------------------------------------------------------------------------
(* C10: a statement whose value holds U+2028 stays one entry: the text is  *)
(* split at its line breaks only, the key of that statement is in the      *)
(* returned dict with the whole statement as its line unless a later       *)
(* statement declares the key again, and a text made of such statements    *)
(* and other matching lines alone does not fail on trailing content.       *)

\* the text split at "\n" only
RECURSIVE SplitAtNL(_, _, _)
SplitAtNL(s, i, cur) ==
    IF i > Len(s)
    THEN IF cur = <<>> THEN <<>> ELSE <<cur>>
    ELSE IF s[i] = NL
         THEN <<Append(cur, s[i])>> \o SplitAtNL(s, i + 1, <<>>)
         ELSE SplitAtNL(s, i + 1, Append(cur, s[i]))

\* a statement with U+2028 inside its value
HoldsLS(line) ==
    /\ RegexMatch(line).matched
    /\ \E i \in RegexMatch(line).vstart..RegexMatch(line).vend : line[i] = LS

\* C10: a statement with U+2028 in its value is one entry of the returned
\* dict, and it alone makes no call fail
C10_SplitAtLineBreakOnly ==
    LET stmts == SplitAtNL(content, 1, <<>>)
    IN  /\ (pc = "returned" /\ ~remove_value) =>
               \A i \in 1..Len(stmts) :
                   HoldsLS(stmts[i]) =>
                       /\ DictHas(ret.result, RegexMatch(stmts[i]).key)
                       /\ \/ DictGet(ret.result, RegexMatch(stmts[i]).key).line = stmts[i]
                          \/ \E j \in (i + 1)..Len(stmts) :
                                 /\ RegexMatch(stmts[j]).matched
                                 /\ RegexMatch(stmts[j]).key = RegexMatch(stmts[i]).key
        /\ (pc = "raised" /\ \E i \in 1..Len(stmts) : HoldsLS(stmts[i]))
               => \E i \in 1..Len(stmts) : ~RegexMatch(stmts[i]).matched

---------------------------------------------------------------------------
(* C8: one failing file in a batch.                                        *)

\* the text a file holds after the script has processed that file alone
Alone(text) ==
    LET r == update_strings_file_content(text, generated_content)
    IN  IF r.err = "none" THEN Written(text, r, wet_run) ELSE text

Fails(text) == update_strings_file_content(text, generated_content).err # "none"

\* C8: when the script has ended, a file whose update failed is
\* as it was, and every other file of the batch, the ones after the failing
\* file included, holds what processing it alone gives
C8_OthersStillProcessed ==
    pc \in {"done", "crashed"} =>
        \A i \in 1..Len(disk) : disk[i] = Alone(disk0[i])

\* C8, amended: the failing file is never written and every file before
\* it in the list holds what processing it alone gives; the error is caught
\* nowhere, so the script ends at the first failing file and every file
\* after it is left unprocessed, as it was.
C8_BatchStopsAtFailure ==
    /\ \A i \in 1..Len(disk) :
           /\ i <= idx => (~Fails(disk0[i]) /\ disk[i] = Alone(disk0[i]))
           /\ i > idx => disk[i] = disk0[i]
    /\ Len(modss) = idx
    /\ pc = "crashed" => (idx < Len(disk) /\ Fails(disk0[idx + 1]))
    /\ pc = "done" => (idx = Len(disk) /\ \A i \in 1..Len(disk) : ~Fails(disk0[i]))

\* a wet run that wrote the first file, failed on the second and left a
\* third, which it would have changed, as it was
C8_Witness ==
    /\ pc = "crashed"
    /\ wet_run
    /\ idx = 1
    /\ Len(disk) = 3
    /\ disk[1] # disk0[1]
    /\ disk[2] = disk0[2]
    /\ ~Fails(disk0[3])
    /\ Alone(disk0[3]) # disk0[3]
    /\ disk[3] = disk0[3]

=============================================================================
